---- MODULE Spec2Model ----
(***************************************************************************)
(* Model of card_deck/deck.py: Card, Deck and Hand.                        *)
(*                                                                         *)
(* Python values that reach Card.__init__ are integers or strings; both    *)
(* are encoded as records [t, n, s] so that the membership test and the    *)
(* comparisons of the source can be evaluated on either kind.              *)
(***************************************************************************)
EXTENDS Integers, Sequences, FiniteSets, TLC

VARIABLES exists, deck, discard, hands, held, last, cmpA, cmpB, cmpRes

vars == <<exists, deck, discard, hands, held, last, cmpA, cmpB, cmpRes>>

----------------------------------------------------------------------------
(* Bounds *)

MaxCards == 2        \* Card objects the caller constructs
MaxRefs == 2         \* card references held in piles and hands together
MaxRankInput == 15   \* integer values tried are -1..MaxRankInput
MaxDecks == 2        \* number_of_decks tried is 0..MaxDecks
MaxIndex == 2        \* card_index tried is -MaxIndex..MaxIndex

Decks == {"A", "B"}
Hands == {"h1", "h2"}

----------------------------------------------------------------------------
(* Module-level data of deck.py *)

suits == {"heart", "spade", "club", "diamond"}

\* variant: diamond and spade exchanged
suit_value_dict_swapped == [heart |-> 3, spade |-> 2, diamond |-> 1, club |-> 0]

suit_value_dict == [heart |-> 3, diamond |-> 2, spade |-> 1, club |-> 0]

\* the local lists of Deck.__init__
SuitOrder == <<"heart", "spade", "club", "diamond">>

card_values == <<1, 2, 3, 4, 5, 6, 7, 8, 9, 10, 11, 12, 13>>

----------------------------------------------------------------------------
(* Python values *)

IntVal(n) == [t |-> "int", n |-> n, s |-> ""]

StrVal(s) == [t |-> "str", n |-> 0, s |-> s]

\* `x in suits` for a Python value x
InSuits(v) == v.t = "str" /\ v.s \in suits

\* order of the str values that occur (Python compares str lexicographically)
StrRank(s) ==
  CASE s = "" -> 0
    [] s = "club" -> 1
    [] s = "diamond" -> 2
    [] s = "heart" -> 3
    [] s = "spade" -> 4
    [] OTHER -> 5

\* `a == b`
PyEq(a, b) == a = b

\* `a > b`: "TypeError" between int and str
PyGt(a, b) ==
  IF a.t # b.t THEN "TypeError"
  ELSE IF a.t = "int" THEN (IF a.n > b.n THEN "true" ELSE "false")
  ELSE (IF StrRank(a.s) > StrRank(b.s) THEN "true" ELSE "false")

\* `a < b`
PyLt(a, b) == PyGt(b, a)

NoCard == [id |-> 0, value |-> StrVal(""), suit |-> ""]

----------------------------------------------------------------------------
(* list.pop(i): negative i counts from the end *)

RemoveAt(s, k) == [j \in 1..(Len(s) - 1) |-> IF j < k THEN s[j] ELSE s[j + 1]]

\* variant: an index past the end takes the last element
ListPop_clamped(s, i) ==
  LET n == Len(s)
      k == IF i < 0 THEN i + n ELSE i
  IN IF n = 0 \/ k < 0
       THEN [err |-> "IndexError", item |-> NoCard, rest |-> s]
       ELSE IF k >= n
         THEN [err |-> "none", item |-> s[n], rest |-> RemoveAt(s, n)]
         ELSE [err |-> "none", item |-> s[k + 1], rest |-> RemoveAt(s, k + 1)]

ListPop(s, i) ==
  LET n == Len(s)
      k == IF i < 0 THEN i + n ELSE i
  IN IF k < 0 \/ k >= n
       THEN [err |-> "IndexError", item |-> NoCard, rest |-> s]
       ELSE [err |-> "none", item |-> s[k + 1], rest |-> RemoveAt(s, k + 1)]

----------------------------------------------------------------------------
(* Card *)

\* variant: the suit is checked before the value
CardInit_suitFirst(id, value, suit) ==
  IF suit \notin suits THEN [err |-> "CardSuitError", card |-> NoCard]
  ELSE IF ~InSuits(value) THEN [err |-> "CardValueError", card |-> NoCard]
  ELSE [err |-> "none", card |-> [id |-> id, value |-> value, suit |-> suit]]

\* Card.__init__(value, suit); id is the identity of the new object
CardInit(id, value, suit) ==
  IF ~InSuits(value) THEN [err |-> "CardValueError", card |-> NoCard]
  ELSE IF suit \notin suits THEN [err |-> "CardSuitError", card |-> NoCard]
  ELSE [err |-> "none", card |-> [id |-> id, value |-> value, suit |-> suit]]

\* variant: >= in place of == and >, so equal suits compare as higher
suitCompare_geq(a, b) ==
  IF a.suit \notin DOMAIN suit_value_dict \/ b.suit \notin DOMAIN suit_value_dict
    THEN [err |-> "KeyError", val |-> 0]
  ELSE IF suit_value_dict[a.suit] >= suit_value_dict[b.suit] THEN [err |-> "none", val |-> 1]
  ELSE [err |-> "none", val |-> -1]

\* Card.suitCompare
suitCompare(a, b) ==
  IF a.suit \notin DOMAIN suit_value_dict \/ b.suit \notin DOMAIN suit_value_dict
    THEN [err |-> "KeyError", val |-> 0]
  ELSE IF suit_value_dict[a.suit] = suit_value_dict[b.suit] THEN [err |-> "none", val |-> 0]
  ELSE IF suit_value_dict[a.suit] > suit_value_dict[b.suit] THEN [err |-> "none", val |-> 1]
  ELSE [err |-> "none", val |-> -1]

\* Card.compare
compare(a, b) ==
  IF PyEq(a.value, b.value) THEN suitCompare(a, b)
  ELSE IF PyGt(a.value, b.value) = "TypeError" THEN [err |-> "TypeError", val |-> 0]
  ELSE IF PyGt(a.value, b.value) = "true" THEN [err |-> "none", val |-> 1]
  ELSE IF PyLt(a.value, b.value) = "true" THEN [err |-> "none", val |-> -1]
  ELSE [err |-> "None", val |-> 0]

----------------------------------------------------------------------------
(* Deck *)

\* The statements of Deck.__init__ that construct a Card, numbered in
\* execution order: 13 ranks for each of the 4 suits, then the joker
\* statement when using_jokers, for each deck copy.  base makes the
\* identities of the new Card objects fresh.
CtorStatement(base, using_jokers, i) ==
  LET perCopy == Len(SuitOrder) * Len(card_values)
      stmts == perCopy + (IF using_jokers THEN 1 ELSE 0)
      p == (i - 1) % stmts
  IN IF p = perCopy
       THEN [err |-> "TypeError", card |-> NoCard]   \* Card(14): suit missing
       ELSE CardInit(base + i,
                     IntVal(card_values[(p % Len(card_values)) + 1]),
                     SuitOrder[(p \div Len(card_values)) + 1])

\* runs statements i..total; the first one that raises ends the constructor
RECURSIVE CtorRun(_, _, _, _, _)
CtorRun(base, using_jokers, total, i, acc) ==
  IF i > total THEN [err |-> "none", deck |-> acc]
  ELSE LET r == CtorStatement(base, using_jokers, i)
       IN IF r.err # "none" THEN [err |-> r.err, deck |-> << >>]
          ELSE CtorRun(base, using_jokers, total, i + 1, Append(acc, r.card))

\* Deck.__init__(number_of_decks, using_jokers)
DeckInit(base, number_of_decks, using_jokers) ==
  LET stmts == Len(SuitOrder) * Len(card_values) + (IF using_jokers THEN 1 ELSE 0)
  IN CtorRun(base, using_jokers, number_of_decks * stmts, 1, << >>)

Perms(s) == {[i \in 1..Len(s) |-> s[p[i]]] : p \in Permutations(1..Len(s))}

\* variant: the discard pile is cleared without being added to the deck
ShuffleResults_dropDiscard(dk, dc) == Perms(dk)

\* Deck.shuffle: the orders random.shuffle can leave in self.deck
ShuffleResults(dk, dc) == Perms(dk \o dc)

\* variant: pop() instead of pop(0)
DrawResult_lifo(dk) ==
  LET p == ListPop(dk, -1)
  IN IF p.err = "IndexError"
       THEN [err |-> "DeckOutOfCardsError", card |-> NoCard, rest |-> dk]
       ELSE [err |-> "none", card |-> p.item, rest |-> p.rest]

\* variant: the IndexError of pop is not translated
DrawResult_rawError(dk) ==
  LET p == ListPop(dk, 0)
  IN IF p.err = "IndexError"
       THEN [err |-> "IndexError", card |-> NoCard, rest |-> dk]
       ELSE [err |-> "none", card |-> p.item, rest |-> p.rest]

\* variant: self.deck[0] instead of self.deck.pop(0)
DrawResult_peek(dk) ==
  LET p == ListPop(dk, 0)
  IN IF p.err = "IndexError"
       THEN [err |-> "DeckOutOfCardsError", card |-> NoCard, rest |-> dk]
       ELSE [err |-> "none", card |-> p.item, rest |-> dk]

\* Deck.draw
DrawResult(dk) ==
  LET p == ListPop(dk, 0)
  IN IF p.err = "IndexError"
       THEN [err |-> "DeckOutOfCardsError", card |-> NoCard, rest |-> dk]
       ELSE [err |-> "none", card |-> p.item, rest |-> p.rest]

\* variant: insert(0, card) instead of append(card)
DiscardAppend_front(dc, card) == <<card>> \o dc

\* variant: a card already in the discard pile is not added again
DiscardAppend_unique(dc, card) ==
  IF \E i \in DOMAIN dc : dc[i] = card THEN dc ELSE Append(dc, card)

\* Deck.addToDiscard
DiscardAppend(dc, card) == Append(dc, card)

----------------------------------------------------------------------------
(* State *)

RECURSIVE SumLen(_, _)
SumLen(f, S) ==
  IF S = {} THEN 0
  ELSE LET x == CHOOSE y \in S : TRUE IN Len(f[x]) + SumLen(f, S \ {x})

\* references to cards in all piles and hands
RefCount == SumLen(deck, Decks) + SumLen(discard, Decks) + SumLen(hands, Hands)

IdBase(d) == IF d = "A" THEN 1000 ELSE 2000

Created == {c \in held : c.id < IdBase("A")}

IntInputs == {IntVal(n) : n \in -1..MaxRankInput}

ValueInputs == IntInputs \cup {StrVal(s) : s \in suits \cup {"star"}}

SuitInputs == suits \cup {"star", ""}

\* the arguments the caller of the state machine passes to Card(...)
CallerValues == {IntVal(1), StrVal("heart")}

CallerSuits == {"heart", "spade", "star"}

PureArgs == [value : ValueInputs, suit : SuitInputs]

NoArgs == [value |-> StrVal(""), suit |-> ""]

Result(op, err, ret) == [op |-> op, err |-> err, ret |-> ret]

Init ==
  /\ exists = [d \in Decks |-> FALSE]
  /\ deck = [d \in Decks |-> << >>]
  /\ discard = [d \in Decks |-> << >>]
  /\ hands = [h \in Hands |-> << >>]
  /\ held = {}
  /\ last = Result("init", "none", NoCard)
  /\ cmpA = NoArgs
  /\ cmpB = NoArgs
  /\ cmpRes = [err |-> "pending", val |-> 0]

----------------------------------------------------------------------------
(* Operations *)

\* c = Card(value, suit)
CardNew(value, suit) ==
  /\ Cardinality(Created) < MaxCards
  /\ LET r == CardInit(Cardinality(Created) + 1, value, suit)
     IN /\ held' = IF r.err = "none" THEN held \cup {r.card} ELSE held
        /\ last' = Result("Card.new", r.err, r.card)
  /\ UNCHANGED <<exists, deck, discard, hands, cmpA, cmpB, cmpRes>>

\* d = Deck(n, j)
DeckNew(d, n, j) ==
  /\ ~exists[d]
  /\ LET r == DeckInit(IdBase(d), n, j)
     IN /\ exists' = [exists EXCEPT ![d] = (r.err = "none")]
        /\ deck' = [deck EXCEPT ![d] = r.deck]
        /\ last' = Result("Deck.new", r.err, NoCard)
  /\ UNCHANGED <<discard, hands, held, cmpA, cmpB, cmpRes>>

\* d.shuffle()
Shuffle(d) ==
  /\ exists[d]
  /\ \E sh \in ShuffleResults(deck[d], discard[d]) :
       deck' = [deck EXCEPT ![d] = sh]
  /\ discard' = [discard EXCEPT ![d] = << >>]
  /\ last' = Result("Deck.shuffle", "none", NoCard)
  /\ UNCHANGED <<exists, hands, held, cmpA, cmpB, cmpRes>>

\* variant: an empty draw pile is refilled from the discard pile
DeckDraw_refill(d) ==
  /\ exists[d]
  /\ LET src == IF deck[d] = << >> THEN discard[d] ELSE deck[d]
         r == DrawResult(src)
     IN /\ deck' = [deck EXCEPT ![d] = r.rest]
        /\ discard' = [discard EXCEPT ![d] = IF deck[d] = << >> THEN << >> ELSE discard[d]]
        /\ held' = IF r.err = "none" THEN held \cup {r.card} ELSE held
        /\ last' = Result("Deck.draw", r.err, r.card)
  /\ UNCHANGED <<exists, hands, cmpA, cmpB, cmpRes>>

\* c = d.draw(), called directly: the caller keeps the returned card
DeckDraw(d) ==
  /\ exists[d]
  /\ LET r == DrawResult(deck[d])
     IN /\ deck' = [deck EXCEPT ![d] = r.rest]
        /\ held' = IF r.err = "none" THEN held \cup {r.card} ELSE held
        /\ last' = Result("Deck.draw", r.err, r.card)
  /\ UNCHANGED <<exists, discard, hands, cmpA, cmpB, cmpRes>>

\* d.addToDiscard(c), called directly with any card the caller holds
AddToDiscard(d, c) ==
  /\ exists[d]
  /\ RefCount < MaxRefs
  /\ discard' = [discard EXCEPT ![d] = DiscardAppend(discard[d], c)]
  /\ last' = Result("Deck.addToDiscard", "none", NoCard)
  /\ UNCHANGED <<exists, deck, hands, held, cmpA, cmpB, cmpRes>>

\* variant: the hand is extended before the error of the deck is seen
HandDraw_partial(h, d) ==
  /\ exists[d]
  /\ LET r == DrawResult(deck[d])
     IN /\ deck' = [deck EXCEPT ![d] = r.rest]
        /\ hands' = [hands EXCEPT ![h] = Append(hands[h], r.card)]
        /\ last' = Result("Hand.draw", r.err, NoCard)
  /\ UNCHANGED <<exists, discard, held, cmpA, cmpB, cmpRes>>

\* variant: the hand stores a new card built with value and suit exchanged
HandDraw_rebuilt(h, d) ==
  /\ exists[d]
  /\ LET r == DrawResult(deck[d])
     IN IF r.err = "DeckOutOfCardsError"
          THEN /\ last' = Result("Hand.draw", "DeckOutOfCardsError", NoCard)
               /\ UNCHANGED <<deck, hands>>
          ELSE /\ deck' = [deck EXCEPT ![d] = r.rest]
               /\ hands' = [hands EXCEPT ![h] =
                    Append(hands[h], [id |-> r.card.id,
                                      value |-> StrVal(r.card.suit),
                                      suit |-> r.card.value.s])]
               /\ last' = Result("Hand.draw", "none", NoCard)
  /\ UNCHANGED <<exists, discard, held, cmpA, cmpB, cmpRes>>

\* variant: insert(0, card) instead of append(card)
HandDraw_atFront(h, d) ==
  /\ exists[d]
  /\ LET r == DrawResult(deck[d])
     IN IF r.err = "DeckOutOfCardsError"
          THEN /\ last' = Result("Hand.draw", "DeckOutOfCardsError", NoCard)
               /\ UNCHANGED <<deck, hands>>
          ELSE /\ deck' = [deck EXCEPT ![d] = r.rest]
               /\ hands' = [hands EXCEPT ![h] = <<r.card>> \o hands[h]]
               /\ last' = Result("Hand.draw", "none", NoCard)
  /\ UNCHANGED <<exists, discard, held, cmpA, cmpB, cmpRes>>

\* h.draw(d)
HandDraw(h, d) ==
  /\ exists[d]
  /\ LET r == DrawResult(deck[d])
     IN IF r.err = "DeckOutOfCardsError"
          THEN /\ last' = Result("Hand.draw", "DeckOutOfCardsError", NoCard)
               /\ UNCHANGED <<deck, hands>>
          ELSE /\ deck' = [deck EXCEPT ![d] = r.rest]
               /\ hands' = [hands EXCEPT ![h] = Append(hands[h], r.card)]
               /\ last' = Result("Hand.draw", "none", NoCard)
  /\ UNCHANGED <<exists, discard, held, cmpA, cmpB, cmpRes>>

\* variant: self.hand[card_index] instead of self.hand.pop(card_index)
HandDiscard_keep(h, d, card_index) ==
  /\ exists[d]
  /\ LET p == ListPop(hands[h], card_index)
     IN IF p.err = "IndexError"
          THEN /\ last' = Result("Hand.discard", "IndexError", NoCard)
               /\ UNCHANGED <<hands, discard>>
          ELSE /\ hands' = hands
               /\ discard' = [discard EXCEPT ![d] = DiscardAppend(discard[d], p.item)]
               /\ last' = Result("Hand.discard", "none", NoCard)
  /\ UNCHANGED <<exists, deck, held, cmpA, cmpB, cmpRes>>

\* h.discard(d, card_index)
HandDiscard(h, d, card_index) ==
  /\ exists[d]
  /\ LET p == ListPop(hands[h], card_index)
     IN IF p.err = "IndexError"
          THEN /\ last' = Result("Hand.discard", "IndexError", NoCard)
               /\ UNCHANGED <<hands, discard>>
          ELSE /\ hands' = [hands EXCEPT ![h] = p.rest]
               /\ discard' = [discard EXCEPT ![d] = DiscardAppend(discard[d], p.item)]
               /\ last' = Result("Hand.discard", "none", NoCard)
  /\ UNCHANGED <<exists, deck, held, cmpA, cmpB, cmpRes>>

\* the operations of a caller that works with the decks in D and the
\* hands in H
NextWith(D, H) ==
  \/ \E v \in CallerValues, s \in CallerSuits : CardNew(v, s)
  \/ \E d \in D, n \in 0..MaxDecks, j \in BOOLEAN : DeckNew(d, n, j)
  \/ \E d \in D : Shuffle(d)
  \/ \E d \in D : DeckDraw(d)
  \/ \E d \in D, c \in held : AddToDiscard(d, c)
  \/ \E h \in H, d \in D : HandDraw(h, d)
  \/ \E h \in H, d \in D, i \in -MaxIndex..MaxIndex : HandDiscard(h, d, i)

NextOn(D) == NextWith(D, Hands)

\* one deck and the hands
Next == NextOn({"A"})

Spec == Init /\ [][Next]_vars

------------------------------------------------------------------\* two decks and one hand
NextTwo == NextWith(Decks, {"h1"})

SpecTwo == Init /\ [][NextTwo]_vars

\* one deck and the hands, used by a caller that keeps calling draw
SpecKeepDrawing == Init /\ [][Next]_vars /\ WF_vars(DeckDraw("A"))

----------------------------------------------------------------------------
(* Card.__init__ and Card.compare as functions of their arguments: cmpA   *)
(* and cmpB are two (value, suit) pairs drawn from the input sets.         *)

InitPure ==
  /\ exists = [d \in Decks |-> FALSE]
  /\ deck = [d \in Decks |-> << >>]
  /\ discard = [d \in Decks |-> << >>]
  /\ hands = [h \in Hands |-> << >>]
  /\ held = {}
  /\ last = Result("init", "none", NoCard)
  /\ cmpA \in PureArgs
  /\ cmpB \in PureArgs
  /\ cmpRes = [err |-> "pending", val |-> 0]

\* Card(cmpA.value, cmpA.suit)
CardStep ==
  /\ last.op = "init"
  /\ LET r == CardInit(1, cmpA.value, cmpA.suit)
     IN last' = Result("Card.new", r.err, r.card)
  /\ UNCHANGED <<exists, deck, discard, hands, held, cmpA, cmpB, cmpRes>>

\* a.compare(b) for objects a, b with the attributes cmpA, cmpB
CompareStep ==
  /\ cmpRes.err = "pending"
  /\ cmpRes' = compare(cmpA, cmpB)
  /\ UNCHANGED <<exists, deck, discard, hands, held, last, cmpA, cmpB>>

NextPure == CardStep \/ CompareStep

SpecPure == InitPure /\ [][NextPure]_vars

----------------------------------------------------------------------------
(* Properties *)

Range(s) == {s[i] : i \in DOMAIN s}

Occ(c, s) == Cardinality({i \in DOMAIN s : s[i] = c})

\* occurrences of card c in the piles of deck d and in all hands
RECURSIVE OccHands(_, _, _)
OccHands(c, hs, S) ==
  IF S = {} THEN 0
  ELSE LET h == CHOOSE x \in S : TRUE IN Occ(c, hs[h]) + OccHands(c, hs, S \ {h})

CardsIn(dk, dc, hs) ==
  Range(dk) \cup Range(dc) \cup UNION {Range(hs[h]) : h \in Hands}

StdRanks == {card_values[i] : i \in DOMAIN card_values}

\* C1 (as claimed): shuffle, Hand.draw and Hand.discard on one deck keep
\* every card in exactly as many places as before, and a deck built by
\* Deck(1, False) starts with 52 cards, so that the draw pile, the discard
\* pile and the hands hold 52 cards together.
C1_Original ==
  [][ /\ \A d \in Decks, h \in Hands, i \in -MaxIndex..MaxIndex :
           (Shuffle(d) \/ HandDraw(h, d) \/ HandDiscard(h, d, i)) =>
             \A c \in CardsIn(deck[d], discard[d], hands) :
               Occ(c, deck'[d]) + Occ(c, discard'[d]) + OccHands(c, hands', Hands)
                 = Occ(c, deck[d]) + Occ(c, discard[d]) + OccHands(c, hands, Hands)
      /\ \A d \in Decks :
           DeckNew(d, 1, FALSE) =>
             /\ exists'[d]
             /\ Len(deck'[d]) + Len(discard'[d]) = 52 ]_vars

\* C2: Deck.draw on a non-empty draw pile returns the first card of the
\* pile and leaves the rest of the pile in order; the discard pile, the
\* other deck and the hands are unchanged.
C2_DrawTakesFront ==
  [][ \A d \in Decks :
        (DeckDraw(d) /\ deck[d] # << >>) =>
          /\ last'.err = "none"
          /\ last'.ret = Head(deck[d])
          /\ deck' = [deck EXCEPT ![d] = Tail(deck[d])]
          /\ discard' = discard
          /\ hands' = hands ]_vars

\* a draw succeeded on a pile whose next card is a different card
C2_Witness ==
  /\ last.op = "Deck.draw"
  /\ last.err = "none"
  /\ \E d \in Decks : deck[d] # << >> /\ Head(deck[d]) # last.ret

\* C3: Deck.draw on an empty draw pile raises DeckOutOfCardsError and
\* changes neither pile, whether or not the discard pile holds cards.
C3_EmptyDrawFails ==
  [][ \A d \in Decks :
        (DeckDraw(d) /\ deck[d] = << >>) =>
          /\ last'.err = "DeckOutOfCardsError"
          /\ deck' = deck
          /\ discard' = discard
          /\ hands' = hands
          /\ held' = held ]_vars

\* a draw failed while the discard pile of an empty deck held cards
C3_Witness ==
  /\ last.op = "Deck.draw"
  /\ last.err = "DeckOutOfCardsError"
  /\ \A d \in Decks : exists[d] => deck[d] = << >> /\ discard[d] # << >>

\* C4: after Deck.shuffle the draw pile holds every card as often as the
\* prior draw pile and discard pile held it together, and the discard
\* pile is empty.
C4_ShufflePermutes ==
  [][ \A d \in Decks :
        Shuffle(d) =>
          /\ discard'[d] = << >>
          /\ Len(deck'[d]) = Len(deck[d]) + Len(discard[d])
          /\ \A c \in Range(deck[d]) \cup Range(discard[d]) \cup Range(deck'[d]) :
               Occ(c, deck'[d]) = Occ(c, deck[d]) + Occ(c, discard[d]) ]_vars

\* a shuffle has merged a discard pile into a draw pile of two different
\* cards, and left them in the order opposite to their identities
C4_Witness ==
  /\ last.op = "Deck.shuffle"
  /\ \E d \in Decks :
       /\ Len(deck[d]) >= 2
       /\ deck[d][1].id > deck[d][2].id
       /\ discard[d] = << >>

\* C5 (as claimed): Hand.discard raises IndexError for every index
\* outside 0..size-1, negative ones included, and then changes nothing.
C5_Original ==
  [][ \A h \in Hands, d \in Decks, i \in -MaxIndex..MaxIndex :
        (HandDiscard(h, d, i) /\ ~(0 <= i /\ i < Len(hands[h]))) =>
          /\ last'.err = "IndexError"
          /\ hands' = hands
          /\ deck' = deck
          /\ discard' = discard ]_vars

\* C5 (amended): Hand.discard raises IndexError for every index with
\* index >= size or index < -size, and then changes nothing; an index
\* with -size <= index < 0 discards the card at position size + index.
C5_DiscardIndexCheck ==
  [][ \A h \in Hands, d \in Decks, i \in -MaxIndex..MaxIndex :
        HandDiscard(h, d, i) =>
          LET n == Len(hands[h])
          IN /\ (i >= n \/ i < -n) =>
                  /\ last'.err = "IndexError"
                  /\ hands' = hands
                  /\ deck' = deck
                  /\ discard' = discard
             /\ (-n <= i /\ i < 0) =>
                  /\ last'.err = "none"
                  /\ Len(hands'[h]) = n - 1
                  /\ discard'[d] = Append(discard[d], hands[h][n + i + 1])
                  /\ deck' = deck ]_vars

\* a discard failed although every hand held a card
C5_Witness ==
  /\ last.op = "Hand.discard"
  /\ last.err = "IndexError"
  /\ \A h \in Hands : hands[h] # << >>

\* C6: Hand.draw on a deck with an empty draw pile raises the error
\* Deck.draw raises, DeckOutOfCardsError, and changes no hand and no pile.
C6_HandDrawPropagates ==
  [][ \A h \in Hands, d \in Decks :
        (HandDraw(h, d) /\ deck[d] = << >>) =>
          /\ last'.err = DrawResult(deck[d]).err
          /\ last'.err = "DeckOutOfCardsError"
          /\ hands' = hands
          /\ deck' = deck
          /\ discard' = discard ]_vars

\* a hand that holds a card failed to draw from an exhausted deck
C6_Witness ==
  /\ last.op = "Hand.draw"
  /\ last.err = "DeckOutOfCardsError"
  /\ \E h \in Hands : hands[h] # << >>
  /\ \E d \in Decks : exists[d] /\ discard[d] # << >>

\* C7 (as claimed): Deck(n, False) completes with 52*n cards, every
\* (rank, suit) pair of ranks 1..13 and the four suits present n times.
C7_Original ==
  [][ \A d \in Decks, n \in 0..MaxDecks :
        DeckNew(d, n, FALSE) =>
          /\ last'.err = "none"
          /\ exists'[d]
          /\ Len(deck'[d]) = 52 * n
          /\ \A r \in StdRanks, s \in suits :
               Cardinality({i \in DOMAIN deck'[d] :
                              /\ deck'[d][i].value = IntVal(r)
                              /\ deck'[d][i].suit = s}) = n ]_vars

IsInt(v) == v.t = "int"

\* C8: Card(value, suit) with an integer rank outside 1..13 raises
\* CardValueError whatever the suit argument is, valid or not.
C8_InvalidRankFirst ==
  (last.op = "Card.new" /\ IsInt(cmpA.value) /\ cmpA.value.n \notin StdRanks)
    => last.err = "CardValueError"

\* a rank outside 1..13 was rejected together with a suit outside the four
C8_Witness ==
  /\ last.op = "Card.new"
  /\ last.err = "CardValueError"
  /\ IsInt(cmpA.value)
  /\ cmpA.value.n \notin 1..14
  /\ cmpA.suit \notin suits

\* C9 (as claimed): Card(value, suit) with a rank in 1..13 and a suit
\* outside the four suits raises CardSuitError.
C9_Original ==
  (last.op = "Card.new" /\ IsInt(cmpA.value) /\ cmpA.value.n \in StdRanks
     /\ cmpA.suit \notin suits)
    => last.err = "CardSuitError"

\* cards with a rank in 1..13 and one of the four suits
StdCards == [value : {IntVal(r) : r \in StdRanks}, suit : suits]

Sign(n) == IF n > 0 THEN 1 ELSE IF n < 0 THEN -1 ELSE 0

\* the suit ranking the specification gives
TableRank(s) ==
  CASE s = "heart" -> 3
    [] s = "diamond" -> 2
    [] s = "spade" -> 1
    [] s = "club" -> 0

Known(hd, dk, dc, hs) ==
  hd \cup UNION {Range(dk[d]) : d \in Decks} \cup UNION {Range(dc[d]) : d \in Decks}
     \cup UNION {Range(hs[h]) : h \in Hands}

\* C12: no step changes the value or the suit of a card object; the card
\* Hand.draw puts in the hand has the value and suit of the front card of
\* the draw pile, and the card Hand.discard puts in the discard pile has
\* the value and suit it had in the hand.
C12_CardsImmutable ==
  [][ /\ \A c \in Known(held, deck, discard, hands) :
           \A c2 \in Known(held', deck', discard', hands') :
             c2.id = c.id => (c2.value = c.value /\ c2.suit = c.suit)
      /\ \A h \in Hands, d \in Decks :
           (HandDraw(h, d) /\ deck[d] # << >>) =>
             /\ Len(hands'[h]) = Len(hands[h]) + 1
             /\ hands'[h][Len(hands'[h])].value = Head(deck[d]).value
             /\ hands'[h][Len(hands'[h])].suit = Head(deck[d]).suit
      /\ \A h \in Hands, d \in Decks :
           (HandDiscard(h, d, 0) /\ hands[h] # << >>) =>
             /\ Len(discard'[d]) = Len(discard[d]) + 1
             /\ discard'[d][Len(discard'[d])].value = hands[h][1].value
             /\ discard'[d][Len(discard'[d])].suit = hands[h][1].suit ]_vars

\* a card with different value and suit went through a hand into the
\* discard pile
C12_Witness ==
  /\ last.op = "Hand.discard"
  /\ last.err = "none"
  /\ \E d \in Decks :
       /\ discard[d] # << >>
       /\ discard[d][Len(discard[d])].value # StrVal(discard[d][Len(discard[d])].suit)
       /\ deck[d] = << >>
  /\ \A h \in Hands : hands[h] = << >>

\* C13 (as claimed): Deck(n, True) completes with 54*n cards: after the 52
\* cards of each copy come two jokers of rank 14, 2*n jokers in all.
C13_Original ==
  [][ \A d \in Decks, n \in 0..MaxDecks :
        DeckNew(d, n, TRUE) =>
          /\ last'.err = "none"
          /\ exists'[d]
          /\ Len(deck'[d]) = 54 * n
          /\ Cardinality({i \in DOMAIN deck'[d] : deck'[d][i].value = IntVal(14)}) = 2 * n
          /\ \A i \in DOMAIN deck'[d] :
               (deck'[d][i].value = IntVal(14)) <=> ((i - 1) % 54 >= 52) ]_vars

\* C14 (as claimed): Deck(n, False) completes with an empty discard pile
\* and the draw pile in construction order: copy after copy, within a
\* copy the suits heart, spade, club, diamond, within a suit the ranks
\* 1 to 13 ascending.
C14_Original ==
  [][ \A d \in Decks, n \in 0..MaxDecks :
        DeckNew(d, n, FALSE) =>
          /\ exists'[d]
          /\ discard'[d] = << >>
          /\ DOMAIN deck'[d] = 1..(52 * n)
          /\ \A i \in DOMAIN deck'[d] :
               /\ deck'[d][i].suit = <<"heart", "spade", "club", "diamond">>[(((i - 1) % 52) \div 13) + 1]
               /\ deck'[d][i].value = IntVal((((i - 1) % 52) % 13) + 1) ]_vars

\* C15: Hand.discard with 0 <= index < size removes exactly the card at
\* that position (the others keep their order), appends it at the end of
\* the discard pile of the deck, and changes no draw pile, no other hand
\* and no other deck.
C15_DiscardMovesOneCard ==
  [][ \A h \in Hands, d \in Decks, i \in 0..MaxIndex :
        (HandDiscard(h, d, i) /\ i < Len(hands[h])) =>
          /\ last'.err = "none"
          /\ Len(hands'[h]) = Len(hands[h]) - 1
          /\ \A j \in 1..Len(hands'[h]) :
               hands'[h][j] = IF j <= i THEN hands[h][j] ELSE hands[h][j + 1]
          /\ discard'[d] = discard[d] \o <<hands[h][i + 1]>>
          /\ deck' = deck
          /\ \A h2 \in Hands \ {h} : hands'[h2] = hands[h2]
          /\ \A d2 \in Decks \ {d} : discard'[d2] = discard[d2] ]_vars

\* a discard put a card behind a different card of the discard pile
C15_Witness ==
  /\ last.op = "Hand.discard"
  /\ last.err = "none"
  /\ \E d \in Decks : Len(discard[d]) >= 2 /\ discard[d][1] # discard[d][2]

\* t is s without one of its elements, the others in the same order
OneRemoved(s, t) ==
  /\ Len(t) = Len(s) - 1
  /\ \E k \in 1..Len(s) :
       \A j \in 1..Len(t) : t[j] = IF j < k THEN s[j] ELSE s[j + 1]

\* C16: Hand.draw on a non-empty draw pile puts the front card of the
\* pile behind the cards of the hand, which keep their positions, and
\* leaves the discard piles and the other hands unchanged.  A hand stays
\* in draw order: a step changes a hand only by adding one card at its
\* end (Hand.draw) or by removing one card from it (Hand.discard).
C16_DrawAppendsToHand ==
  [][ /\ \A h \in Hands, d \in Decks :
           (HandDraw(h, d) /\ deck[d] # << >>) =>
             /\ last'.err = "none"
             /\ hands'[h] = hands[h] \o <<Head(deck[d])>>
             /\ deck'[d] = Tail(deck[d])
             /\ discard' = discard
             /\ \A h2 \in Hands \ {h} : hands'[h2] = hands[h2]
      /\ \A h \in Hands :
           \/ hands'[h] = hands[h]
           \/ /\ last'.op = "Hand.draw"
              /\ Len(hands'[h]) = Len(hands[h]) + 1
              /\ SubSeq(hands'[h], 1, Len(hands[h])) = hands[h]
           \/ /\ last'.op = "Hand.discard"
              /\ OneRemoved(hands[h], hands'[h]) ]_vars

\* a draw put a card behind a different card of the hand
C16_Witness ==
  /\ last.op = "Hand.draw"
  /\ last.err = "none"
  /\ \E h \in Hands : Len(hands[h]) >= 2 /\ hands[h][1].id < hands[h][2].id

\* C17: Deck.addToDiscard raises nothing and puts the card at the end of
\* the discard pile, whether the card is new, is referenced by a pile of
\* the other deck or is already in a pile of this deck; the draw piles,
\* the hands and the other deck's discard pile are unchanged.
C17_AddToDiscardAppends ==
  [][ \A d \in Decks, c \in held :
        AddToDiscard(d, c) =>
          /\ last'.err = "none"
          /\ discard'[d] = discard[d] \o <<c>>
          /\ deck' = deck
          /\ hands' = hands
          /\ \A d2 \in Decks \ {d} : discard'[d2] = discard[d2] ]_vars

\* a card that a pile of the other deck holds was added to a discard pile
C17_Witness ==
  /\ last.op = "Deck.addToDiscard"
  /\ last.err = "none"
  /\ \E d \in Decks, d2 \in Decks :
       /\ d # d2
       /\ discard[d] # << >>
       /\ discard[d][Len(discard[d])] \in Range(deck[d2]) \cup Range(discard[d2])

\* a card was added to the discard pile that already held it
C17_SameDeckCase ==
  /\ last.op = "Deck.addToDiscard"
  /\ \E d \in Decks : Len(discard[d]) = 2 /\ discard[d][1] = discard[d][2]

IsPrefix(s, t) == Len(s) <= Len(t) /\ SubSeq(t, 1, Len(s)) = s

\* what every step does to the piles: the discard pile of a deck only
\* grows unless the step is a shuffle, a draw leaves the discard piles
\* alone and takes the front card of the draw pile, and nothing but a
\* shuffle or a constructor puts a card into a draw pile
PilesStep ==
  /\ \A d \in Decks :
       last'.op # "Deck.shuffle" => IsPrefix(discard[d], discard'[d])
  /\ \A d \in Decks :
       DeckDraw(d) =>
         /\ discard' = discard
         /\ last'.err = "none" =>
              (deck[d] # << >> /\ last'.ret = Head(deck[d]) /\ deck'[d] = Tail(deck[d]))
  /\ \A d \in Decks, h \in Hands :
       HandDraw(h, d) =>
         /\ discard' = discard
         /\ last'.err = "none" =>
              (deck[d] # << >> /\ hands'[h] = Append(hands[h], Head(deck[d]))
                /\ deck'[d] = Tail(deck[d]))
  /\ \A d \in Decks :
       (last'.op \notin {"Deck.shuffle", "Deck.new"}) =>
         (deck'[d] = deck[d] \/ deck'[d] = Tail(deck[d]))

\* C18 (as claimed): a card that is in the discard pile is not returned
\* by a draw before the next shuffle; the discard pile only grows between
\* shuffles and draw takes cards from the draw pile only.
C18_Original ==
  [][ /\ PilesStep
      /\ \A d \in Decks :
           (DeckDraw(d) /\ last'.err = "none") =>
             last'.ret \notin Range(discard[d])
      /\ \A d \in Decks, h \in Hands :
           (HandDraw(h, d) /\ last'.err = "none") =>
             hands'[h][Len(hands'[h])] \notin Range(discard[d]) ]_vars

\* C18 (amended): the discard pile only grows between shuffles and draw
\* takes the front card of the draw pile only; a card that is in the
\* discard pile is not returned by a draw before the next shuffle unless
\* the draw pile holds the same card object as well (addToDiscard accepts
\* a card that is already in the deck).
C18_DiscardedStaysUntilShuffle ==
  [][ /\ PilesStep
      /\ \A d \in Decks :
           (DeckDraw(d) /\ last'.err = "none"
              /\ Range(deck[d]) \cap Range(discard[d]) = {}) =>
             last'.ret \notin Range(discard[d])
      /\ \A d \in Decks, h \in Hands :
           (HandDraw(h, d) /\ last'.err = "none"
              /\ Range(deck[d]) \cap Range(discard[d]) = {}) =>
             hands'[h][Len(hands'[h])] \notin Range(discard[d]) ]_vars

\* a draw succeeded while the discard pile held another card
C18_Witness ==
  /\ last.op = "Deck.draw"
  /\ last.err = "none"
  /\ \E d \in Decks :
       /\ discard[d] # << >>
       /\ last.ret \notin Range(discard[d])
       /\ deck[d] = << >>

\* C19: without a shuffle exactly as many draws succeed as the draw pile
\* holds cards: a draw succeeds exactly when the draw pile is not empty
\* and then shortens it by one, a failing draw raises DeckOutOfCardsError,
\* and no discard changes the draw pile, so a caller that keeps drawing
\* and stops shuffling reaches DeckOutOfCardsError; a shuffle with a
\* non-empty discard pile leaves a non-empty draw pile.
C19_DrawsUntilExhausted ==
  /\ [][ /\ \A d \in Decks :
            DeckDraw(d) =>
              /\ (last'.err = "none") <=> (deck[d] # << >>)
              /\ (last'.err = "none") => Len(deck'[d]) = Len(deck[d]) - 1
              /\ (last'.err # "none") =>
                   (last'.err = "DeckOutOfCardsError" /\ deck'[d] = deck[d])
         /\ \A d \in Decks, h \in Hands :
            HandDraw(h, d) =>
              /\ (last'.err = "none") <=> (deck[d] # << >>)
              /\ (last'.err = "none") => Len(deck'[d]) = Len(deck[d]) - 1
              /\ (last'.err # "none") =>
                   (last'.err = "DeckOutOfCardsError" /\ deck'[d] = deck[d])
         /\ \A d \in Decks :
            (last'.op \notin {"Deck.shuffle", "Deck.new", "Deck.draw", "Hand.draw"}) =>
              deck'[d] = deck[d]
         /\ \A d \in Decks :
            (Shuffle(d) /\ discard[d] # << >>) => deck'[d] # << >> ]_vars
  /\ (<>[](last.op # "Deck.shuffle") /\ <>exists["A"])
       => <>(last.op = "Deck.draw" /\ last.err = "DeckOutOfCardsError")

\* both hands drew a card and the next draw found the draw pile empty
C19_Witness ==
  /\ last.err = "DeckOutOfCardsError"
  /\ exists["A"]
  /\ deck["A"] = << >>
  /\ \A h \in Hands : hands[h] # << >>

\* occurrences of card c in all piles of both decks and all hands
TotalOcc(c, dk, dc, hs) ==
  Occ(c, dk["A"]) + Occ(c, dc["A"]) + Occ(c, dk["B"]) + Occ(c, dc["B"])
    + OccHands(c, hs, Hands)

\* no card is in two places
NoDup(hd, dk, dc, hs) ==
  \A c \in Known(hd, dk, dc, hs) : TotalOcc(c, dk, dc, hs) <= 1

PileTotal(dk, dc, d) == Len(dk[d]) + Len(dc[d])

\* C20: when a hand draws from one deck and discards into the other, every
\* card stays in as many places as before (in exactly one place if it was
\* in one) and the number of cards in the whole system is constant, while
\* the deck drawn from loses one card and the discard pile of the deck
\* discarded into gains one.
C20_TransferBetweenDecks ==
  [][ /\ (last'.op = "Hand.draw" /\ last'.err = "none") =>
           \A h \in Hands, a \in Decks :
             HandDraw(h, a) =>
               /\ \A c \in Known(held, deck, discard, hands) :
                    TotalOcc(c, deck', discard', hands') = TotalOcc(c, deck, discard, hands)
               /\ NoDup(held, deck, discard, hands) => NoDup(held', deck', discard', hands')
               /\ PileTotal(deck', discard', a) = PileTotal(deck, discard, a) - 1
               /\ \A b \in Decks \ {a} :
                    PileTotal(deck', discard', b) = PileTotal(deck, discard, b)
               /\ Len(hands'[h]) = Len(hands[h]) + 1
      /\ (last'.op = "Hand.discard" /\ last'.err = "none") =>
           \A h \in Hands, b \in Decks, i \in -MaxIndex..MaxIndex :
             HandDiscard(h, b, i) =>
               /\ \A c \in Known(held, deck, discard, hands) :
                    TotalOcc(c, deck', discard', hands') = TotalOcc(c, deck, discard, hands)
               /\ NoDup(held, deck, discard, hands) => NoDup(held', deck', discard', hands')
               /\ Len(discard'[b]) = Len(discard[b]) + 1
               /\ deck'[b] = deck[b]
               /\ \A a \in Decks \ {b} :
                    PileTotal(deck', discard', a) = PileTotal(deck, discard, a)
               /\ Len(hands'[h]) = Len(hands[h]) - 1 ]_vars

\* a hand has discarded into deck B while deck A still holds a card, and
\* no card is in two places
C20_Witness ==
  /\ last.op = "Hand.discard"
  /\ last.err = "none"
  /\ exists["A"] /\ exists["B"]
  /\ deck["A"] # << >>
  /\ deck["B"] = << >>
  /\ Len(discard["B"]) = 1
  /\ NoDup(held, deck, discard, hands)

====
